---- MODULE Spec2Model ----
(***************************************************************************)
(* Reconciliation engine of the Taskforce roster system.                   *)
(*                                                                         *)
(*   utils/roblox_sync.py   sync_from_roblox (remote -> local pass),       *)
(*                          sync_member_to_roblox / add_member_to_roblox / *)
(*                          remove_member_from_roblox (local -> remote),   *)
(*                          the module flag _syncing_from_roblox           *)
(*   api/sync_members.py    MemberSyncer.sync_all_members                  *)
(*   api/auto_sync.py       AutoSyncManager.run_sync                       *)
(*   api/roblox_api.py      RANK_MAPPING, map_roblox_rank_to_system,       *)
(*                          get_group_members                              *)
(*   database/models.py     Member, PromotionLog, RankMapping              *)
(***************************************************************************)
EXTENDS Integers, Sequences, FiniteSets, TLC

(***************************************************************************)
(* Bounds of the model.                                                    *)
(***************************************************************************)
\* longest remote roster
MaxRoster == 2
\* most local members before the first pass
MaxLocal == 1
\* most reconciliation passes in one behaviour of Spec
MaxPasses == 1
\* most AutoSyncManager.run_sync ticks in one behaviour of SpecAuto
MaxTicks == 2
\* most push calls issued by the CRUD layer in one behaviour of SpecPush
MaxPushes == 1
\* members on one page of the provider's listing
PageSize == 1

(***************************************************************************)
(* Values.                                                                 *)
(***************************************************************************)
\* Python None (a NULL column)
None == "None"

\* bool(x) of a string-or-None value
Truthy(x) == x # None /\ x # ""

\* user names of the model; "ana" and "Ana" differ only in letter case
Usernames == {"ana", "Ana", "bo"}

\* str.lower()
Lower(s) == IF s = "Ana" THEN "ana" ELSE s

\* str(user_id) for the ids of the model
Str(n) ==
  CASE n = 1 -> "1"
    [] n = 2 -> "2"
    [] n = 3 -> "3"
    [] n = 4 -> "4"
    [] OTHER -> "5"

\* role names the provider reports for the members of the model
RoleNames == {"Novice", "Guest", "Recruit"}

\* api/roblox_api.py RANK_MAPPING: Roblox role name -> system rank
RANK_MAPPING ==
  [r \in {"Aspirant", "Novice", "Adept", "Crusader", "Paladin", "Exemplar",
          "Prospect", "Commander", "Marshall", "General", "Chief General",
          "Guest", "Member"} |->
     CASE r = "Guest" -> "Aspirant"
       [] r = "Member" -> "Novice"
       [] OTHER -> r]

\* RANK_MAPPING.get(roblox_rank, roblox_rank)
map_roblox_rank_to_system(roblox_rank) ==
  IF roblox_rank \in DOMAIN RANK_MAPPING THEN RANK_MAPPING[roblox_rank]
  ELSE roblox_rank

\* MemberSyncer.eligible_ranks and the same list in sync_from_roblox
eligible_ranks ==
  {"Aspirant", "Novice", "Adept", "Crusader", "Paladin", "Exemplar",
   "Prospect", "Commander", "Marshal", "General", "Chief General"}

\* MemberSyncer._is_eligible_rank
is_eligible_rank(rank) == rank \in eligible_ranks

(***************************************************************************)
(* Records.                                                                *)
(***************************************************************************)
\* api/roblox_api.py RobloxMember (the fields the passes read)
RobloxMember(uid, name, role) ==
  [user_id |-> uid, username |-> name, role_name |-> role]

\* database/models.py Member; id is the position in the table
Member(mid, discord, rname, rid, rank, active, updated) ==
  [id |-> mid, discord_username |-> discord, roblox_username |-> rname,
   roblox_id |-> rid, current_rank |-> rank, is_active |-> active,
   last_updated |-> updated]

\* database/models.py PromotionLog
PromotionLog(mid, from, to) ==
  [member_id |-> mid, from_rank |-> from, to_rank |-> to,
   reason |-> "Automatic sync from Roblox group",
   promoted_by |-> "Roblox Sync Bot"]

\* database/models.py RankMapping
RankMapping(rank, roleId, roleName, active) ==
  [system_rank |-> rank, roblox_role_id |-> roleId,
   roblox_role_name |-> roleName, is_active |-> active]

\* the threads of the web process that call sync_from_roblox:
\* the BackgroundScheduler job and the /roblox/sync_now request handler
Threads == {"scheduler", "manual"}


(***************************************************************************)
(* State.                                                                  *)
(***************************************************************************)
VARIABLES
  remote,               \* the provider's group roster, in listing order
  rank_mappings,        \* table rank_mappings, in row order
  db_members,           \* table members, committed rows
  db_logs,              \* table promotion_logs, committed rows
  syncing_from_roblox,  \* utils/roblox_sync.py _syncing_from_roblox
  clock,                \* datetime.utcnow(), one tick per pass
  pc,                   \* per thread: position inside sync_from_roblox
  roblox_members,       \* per thread: the roster returned by get_group_members
  roblox_roles,         \* per thread: role names returned by get_group_roles
  session,              \* per thread: db.session, the uncommitted working rows
  pull_stats,           \* per thread: the dict stats of sync_from_roblox
  collisions,           \* per thread: ids named in "Sync collision" warnings
  before,               \* per thread: the committed rows when the pass began
  raise_at,             \* per thread: roster position whose query raised, or 0
  result,               \* per thread: the value sync_from_roblox returned
  stats,                \* MemberSyncer.stats
  sync_count,           \* AutoSyncManager.sync_count
  calls,                \* the sync_all_members calls made so far, in order
  push_count,           \* push calls made so far
  last_push,            \* the last push call and what it returned
  role_update,          \* the last RobloxAPI.update_member_role call
  fetch,                \* RobloxAPI.get_group_members, request by request
  http                  \* the RobloxAPI instance's outbound calls and last_request

vars == <<remote, rank_mappings, db_members, db_logs, syncing_from_roblox,
          clock, pc, roblox_members, roblox_roles, session, pull_stats,
          collisions, before, raise_at, result, stats, sync_count, calls,
          push_count, last_push, role_update, fetch, http>>

pull_vars == <<pc, roblox_members, roblox_roles, session, pull_stats,
               collisions, before, raise_at, result>>
syncer_vars == <<stats, sync_count, calls>>
push_vars == <<push_count, last_push>>
api_vars == <<role_update, fetch, http>>

(***************************************************************************)
(* Small helpers.                                                          *)
(***************************************************************************)
\* the least element of a set of positions, 0 for the empty set:
\* Query.first() on the rows in table order
FirstIndex(S) == IF S = {} THEN 0 ELSE CHOOSE i \in S : \A j \in S : i <= j

\* the greatest element of a set of positions, 0 for the empty set
LastIndex(S) == IF S = {} THEN 0 ELSE CHOOSE i \in S : \A j \in S : j <= i

\* the first k members of the provider's roster: get_group_members stops at
\* the first page request that fails and returns the pages read so far
get_group_members(k) == SubSeq(remote, 1, k)

(***************************************************************************)
(* sync_from_roblox: role translation (lines 215-236, 265-272).            *)
(***************************************************************************)
\* the dict roblox_role_to_system_rank as a lookup: rows of rank_mappings
\* first, then overwritten by RANK_MAPPING for the role names of the group
roblox_role_to_system_rank(mappings, roles, role_name) ==
  LET rows == {i \in DOMAIN mappings :
                 /\ mappings[i].is_active
                 /\ Truthy(mappings[i].roblox_role_name)
                 /\ mappings[i].roblox_role_name = role_name}
  IN  IF role_name \in roles /\ role_name \in DOMAIN RANK_MAPPING
      THEN RANK_MAPPING[role_name]
      ELSE IF rows # {} THEN mappings[LastIndex(rows)].system_rank
      ELSE None

\* lines 265-272: the translated rank, the role name itself when unmapped
SystemRank(mappings, roles, role_name) ==
  LET r == roblox_role_to_system_rank(mappings, roles, role_name)
  IN  IF Truthy(r) THEN r ELSE role_name

(***************************************************************************)
(* sync_from_roblox: the per-member body of the loop (lines 246-342).      *)
(* w is the working state of the pass:                                     *)
(*   members, logs  rows of the session                                    *)
(*   stats          the dict stats                                         *)
(*   collisions     ids of the members the collision warning was logged for*)
(***************************************************************************)
\* lines 257-263: by roblox_id, then roblox_username, then discord_username
FindMember(members, rm) ==
  LET byId == FirstIndex({i \in DOMAIN members :
                            members[i].roblox_id = Str(rm.user_id)})
      byRoblox == FirstIndex({i \in DOMAIN members :
                            members[i].roblox_username = rm.username})
      byDiscord == FirstIndex({i \in DOMAIN members :
                            members[i].discord_username = rm.username})
  IN  IF byId # 0 THEN byId
      ELSE IF byRoblox # 0 THEN byRoblox
      ELSE byDiscord

\* lines 276-285: the collision guard
IsCollision(member, rm) ==
  Truthy(member.roblox_id) /\ member.roblox_id # Str(rm.user_id)

\* lines 287-318: update of the matched member
PullUpdateMember(w, k, rm, system_rank, now) ==
  LET member == w.members[k]
      rank_changed == member.current_rank # system_rank
      updated == [member EXCEPT
                    !.current_rank = system_rank,
                    !.roblox_id = IF Truthy(member.roblox_id)
                                  THEN member.roblox_id
                                  ELSE Str(rm.user_id),
                    !.roblox_username = rm.username,
                    !.last_updated = now]
  IN  [w EXCEPT
         !.members = [w.members EXCEPT ![k] = updated],
         !.logs = IF rank_changed
                  THEN Append(w.logs, PromotionLog(member.id,
                                        member.current_rank, system_rank))
                  ELSE w.logs,
         !.stats = [w.stats EXCEPT
                      !.rank_changes = IF rank_changed THEN @ + 1 ELSE @,
                      !.updated = @ + 1]]

\* lines 319-335: creation of a member for an eligible rank
PullAddMember(w, rm, system_rank, now) ==
  IF system_rank \in eligible_ranks
  THEN [w EXCEPT
          !.members = Append(w.members,
                        Member(Len(w.members) + 1, rm.username, rm.username,
                               Str(rm.user_id), system_rank, TRUE, now)),
          !.stats = [w.stats EXCEPT !.added = @ + 1]]
  ELSE w

\* the handler of a raising member counting the error twice
PullProcessMemberCountsTwice(w, rm, mappings, roles, now, raises) ==
  IF raises
  THEN [w EXCEPT !.stats = [w.stats EXCEPT !.errors = @ + 2]]
  ELSE
    LET k == FindMember(w.members, rm)
        system_rank == SystemRank(mappings, roles, rm.role_name)
    IN  IF k # 0
        THEN IF IsCollision(w.members[k], rm)
             THEN [w EXCEPT !.collisions = @ \cup {k}]
             ELSE PullUpdateMember(w, k, rm, system_rank, now)
        ELSE PullAddMember(w, rm, system_rank, now)

\* one iteration of the loop; raises = the storage query of this member raised
PullProcessMember(w, rm, mappings, roles, now, raises) ==
  IF raises
  THEN [w EXCEPT !.stats = [w.stats EXCEPT !.errors = @ + 1]]
  ELSE
    LET k == FindMember(w.members, rm)
        system_rank == SystemRank(mappings, roles, rm.role_name)
    IN  IF k # 0
        THEN IF IsCollision(w.members[k], rm)
             THEN [w EXCEPT !.collisions = @ \cup {k}]
             ELSE PullUpdateMember(w, k, rm, system_rank, now)
        ELSE PullAddMember(w, rm, system_rank, now)

\* the loop over roster[i..]; raiseAt is the position whose query raises (0: none)
RECURSIVE PullLoop(_, _, _, _, _, _, _)
PullLoop(w, roster, i, mappings, roles, now, raiseAt) ==
  IF i > Len(roster) THEN w
  ELSE PullLoop(PullProcessMember(w, roster[i], mappings, roles, now,
                                  i = raiseAt),
                roster, i + 1, mappings, roles, now, raiseAt)

\* lines 344-354: members of the system whose roblox_id is not in the roster
PullSweep(members, roster, now) ==
  LET roblox_user_ids == {Str(roster[i].user_id) : i \in DOMAIN roster}
  IN  [i \in DOMAIN members |->
         IF /\ members[i].is_active
            /\ Truthy(members[i].roblox_id)
            /\ members[i].roblox_id \notin roblox_user_ids
         THEN [members[i] EXCEPT !.is_active = FALSE, !.last_updated = now]
         ELSE members[i]]


(***************************************************************************)
(* The storage collaborator: db.session.commit() and rollback().           *)
(* A session works on the rows it read when its transaction began (base)   *)
(* and commit writes the columns it changed and inserts the rows it added. *)
(***************************************************************************)
\* the unique constraint on members.discord_username
UniqueHandles(members) ==
  \A i, j \in DOMAIN members :
    members[i].discord_username = members[j].discord_username => i = j

\* UPDATE of the changed columns of one row
MergeRow(committed, base, row) ==
  [f \in DOMAIN committed |->
     IF row[f] # base[f] THEN row[f] ELSE committed[f]]

\* the table after the session's UPDATEs and INSERTs
CommitRows(committed, base, rows) ==
  LET added == Len(rows) - Len(base)
  IN  [i \in 1..(Len(committed) + added) |->
         IF i <= Len(base) THEN MergeRow(committed[i], base[i], rows[i])
         ELSE IF i <= Len(committed) THEN committed[i]
         ELSE [rows[i - Len(committed) + Len(base)] EXCEPT !.id = i]]

\* a commit that leaves the session's PromotionLog rows behind
CommitLogsDropped(committed, base, rows) == committed

\* the log table after the session's INSERTs
CommitLogs(committed, base, rows) ==
  committed \o SubSeq(rows, Len(base) + 1, Len(rows))

(***************************************************************************)
(* sync_from_roblox, step by step, run by thread t.                        *)
(***************************************************************************)
NoPush == [op |-> "none", member_id |-> 0, skipped |-> FALSE,
           success |-> FALSE, requests |-> 0, message |-> "none"]

NoStats == [added |-> 0, updated |-> 0, rank_changes |-> 0, errors |-> 0]
NoSession == [members |-> <<>>, logs |-> <<>>]
\* what result holds while the call has not returned
NoResult == [success |-> FALSE, message |-> "none"]

InPass(t) == pc[t] \in {"started", "loop", "sweep", "finally"}

\* line 193: set_syncing_flag(True)
SyncFromRoblox_Begin(t) ==
  /\ pc[t] \in {"idle", "done"}
  /\ clock' = clock + 1
  /\ syncing_from_roblox' = TRUE
  /\ pc' = [pc EXCEPT ![t] = "started"]
  /\ before' = [before EXCEPT ![t] = [members |-> db_members, logs |-> db_logs]]
  /\ result' = [result EXCEPT ![t] = NoResult]
  /\ roblox_members' = [roblox_members EXCEPT ![t] = <<>>]
  /\ roblox_roles' = [roblox_roles EXCEPT ![t] = {}]
  /\ session' = [session EXCEPT ![t] = NoSession]
  /\ pull_stats' = [pull_stats EXCEPT ![t] = NoStats]
  /\ collisions' = [collisions EXCEPT ![t] = {}]
  /\ raise_at' = [raise_at EXCEPT ![t] = 0]
  /\ UNCHANGED <<remote, rank_mappings, db_members, db_logs>>
  /\ UNCHANGED <<syncer_vars, push_vars, api_vars>>

\* lines 196-198: get_roblox_api() returned None
SyncFromRoblox_NotConfigured(t) ==
  /\ pc[t] = "started"
  /\ pc' = [pc EXCEPT ![t] = "finally"]
  /\ result' = [result EXCEPT ![t] =
                  [success |-> FALSE, message |-> "Roblox API not configured"]]
  /\ UNCHANGED <<remote, rank_mappings, db_members, db_logs,
                 syncing_from_roblox, clock, roblox_members, roblox_roles,
                 session, pull_stats, collisions, before, raise_at>>
  /\ UNCHANGED <<syncer_vars, push_vars, api_vars>>

\* lines 201-218: get_group_members, get_group_roles, the first query
SyncFromRoblox_Fetch(t) ==
  /\ pc[t] = "started"
  /\ \E k \in 0..Len(remote), roles \in {{}, RoleNames} :
       LET fetched == get_group_members(k)
       IN  IF fetched = <<>>
           THEN /\ roles = {}
                /\ pc' = [pc EXCEPT ![t] = "finally"]
                /\ result' = [result EXCEPT ![t] =
                     [success |-> FALSE,
                      message |-> "Failed to fetch members from Roblox"]]
                /\ UNCHANGED <<roblox_members, roblox_roles, session>>
           ELSE /\ pc' = [pc EXCEPT ![t] = "loop"]
                /\ roblox_members' = [roblox_members EXCEPT ![t] = fetched]
                /\ roblox_roles' = [roblox_roles EXCEPT ![t] = roles]
                /\ session' = [session EXCEPT ![t] =
                     [members |-> db_members, logs |-> db_logs]]
                /\ UNCHANGED result
  /\ UNCHANGED <<remote, rank_mappings, db_members, db_logs,
                 syncing_from_roblox, clock, pull_stats, collisions, before,
                 raise_at>>
  /\ UNCHANGED <<syncer_vars, push_vars, api_vars>>

\* lines 246-342: the loop over the fetched roster
SyncFromRoblox_Loop(t) ==
  /\ pc[t] = "loop"
  /\ \E raiseAt \in 0..Len(roblox_members[t]) :
       LET w == PullLoop([members |-> session[t].members,
                          logs |-> session[t].logs,
                          stats |-> pull_stats[t],
                          collisions |-> collisions[t]],
                         roblox_members[t], 1, rank_mappings,
                         roblox_roles[t], clock, raiseAt)
       IN  /\ session' = [session EXCEPT ![t] =
                            [members |-> w.members, logs |-> w.logs]]
           /\ pull_stats' = [pull_stats EXCEPT ![t] = w.stats]
           /\ collisions' = [collisions EXCEPT ![t] = w.collisions]
           /\ raise_at' = [raise_at EXCEPT ![t] = raiseAt]
  /\ pc' = [pc EXCEPT ![t] = "sweep"]
  /\ UNCHANGED <<remote, rank_mappings, db_members, db_logs,
                 syncing_from_roblox, clock, roblox_members, roblox_roles,
                 before, result>>
  /\ UNCHANGED <<syncer_vars, push_vars, api_vars>>

\* lines 344-362: the sweep over the active members, commit, the result
SyncFromRoblox_Commit(t) ==
  /\ pc[t] = "sweep"
  /\ LET swept == PullSweep(session[t].members, roblox_members[t], clock)
         rows == CommitRows(db_members, before[t].members, swept)
     IN  /\ UniqueHandles(rows)
         /\ db_members' = rows
         /\ db_logs' = CommitLogs(db_logs, before[t].logs, session[t].logs)
         /\ session' = [session EXCEPT ![t] = NoSession]
  /\ result' = [result EXCEPT ![t] =
                  [success |-> TRUE, message |-> "Synced from Roblox",
                   stats |-> pull_stats[t]]]
  /\ pc' = [pc EXCEPT ![t] = "finally"]
  /\ UNCHANGED <<remote, rank_mappings, syncing_from_roblox, clock,
                 roblox_members, roblox_roles, pull_stats, collisions, before,
                 raise_at>>
  /\ UNCHANGED <<syncer_vars, push_vars, api_vars>>

\* the handler returning without the finally clause
SyncFromRoblox_ExceptNoFinally(t) ==
  /\ pc[t] \in {"loop", "sweep"}
  /\ session' = [session EXCEPT ![t] = NoSession]
  /\ result' = [result EXCEPT ![t] =
                  [success |-> FALSE, message |-> "Error"]]
  /\ pc' = [pc EXCEPT ![t] = "done"]
  /\ UNCHANGED <<remote, rank_mappings, db_members, db_logs,
                 syncing_from_roblox, clock, roblox_members, roblox_roles,
                 pull_stats, collisions, before, raise_at>>
  /\ UNCHANGED <<syncer_vars, push_vars, api_vars>>

\* lines 364-370: a query or the commit raised; rollback, the error result
SyncFromRoblox_Except(t) ==
  /\ pc[t] \in {"loop", "sweep"}
  /\ session' = [session EXCEPT ![t] = NoSession]
  /\ result' = [result EXCEPT ![t] =
                  [success |-> FALSE, message |-> "Error"]]
  /\ pc' = [pc EXCEPT ![t] = "finally"]
  /\ UNCHANGED <<remote, rank_mappings, db_members, db_logs,
                 syncing_from_roblox, clock, roblox_members, roblox_roles,
                 pull_stats, collisions, before, raise_at>>
  /\ UNCHANGED <<syncer_vars, push_vars, api_vars>>

\* lines 371-372: set_syncing_flag(False), then the return
SyncFromRoblox_Finally(t) ==
  /\ pc[t] = "finally"
  /\ syncing_from_roblox' = FALSE
  /\ pc' = [pc EXCEPT ![t] = "done"]
  /\ UNCHANGED <<remote, rank_mappings, db_members, db_logs, clock,
                 roblox_members, roblox_roles, session, pull_stats,
                 collisions, before, raise_at, result>>
  /\ UNCHANGED <<syncer_vars, push_vars, api_vars>>

sync_from_roblox(t) ==
  \/ SyncFromRoblox_Begin(t)
  \/ SyncFromRoblox_NotConfigured(t)
  \/ SyncFromRoblox_Fetch(t)
  \/ SyncFromRoblox_Loop(t)
  \/ SyncFromRoblox_Commit(t)
  \/ SyncFromRoblox_Except(t)
  \/ SyncFromRoblox_Finally(t)


(***************************************************************************)
(* MemberSyncer (api/sync_members.py).                                     *)
(* w is the working state of one sync_all_members call:                    *)
(*   members, logs   rows of the session                                   *)
(*   stats           self.stats                                            *)
(*   eligible_count  the local counter of the loop                         *)
(***************************************************************************)
\* MemberSyncer.__init__, lines 32-42
InitialStats ==
  [total_roblox_members |-> 0, eligible_roblox_members |-> 0,
   total_db_members |-> 0, members_added |-> 0, members_updated |-> 0,
   ranks_changed |-> 0, members_skipped |-> 0, errors |-> 0]

\* lines 86-90: db_by_roblox_username[key]; a later row replaces an earlier
\* one under the same key; 0 when the key is absent
db_by_roblox_username(db_rows, key) ==
  LastIndex({i \in DOMAIN db_rows :
               /\ db_rows[i].is_active
               /\ Truthy(db_rows[i].roblox_username)
               /\ Lower(db_rows[i].roblox_username) = key})

\* _add_new_member, lines 146-171
add_new_member(w, rm, system_rank, dry_run, now) ==
  [w EXCEPT
     !.members = IF dry_run THEN @
                 ELSE Append(@, Member(Len(@) + 1, rm.username, rm.username,
                                       Str(rm.user_id), system_rank, TRUE,
                                       now)),
     !.stats = [w.stats EXCEPT !.members_added = @ + 1]]

\* _update_existing_member with the timestamp written outside "if not dry_run"
update_existing_member_stamps(w, k, rm, system_rank, dry_run, now) ==
  LET db_member == w.members[k]
      rank_changed == db_member.current_rank # system_rank
      id_missing == ~Truthy(db_member.roblox_id)
      name_changed == db_member.roblox_username # rm.username
      changes == rank_changed \/ id_missing \/ name_changed
      written == [db_member EXCEPT
                    !.current_rank = system_rank,
                    !.roblox_id = IF id_missing THEN Str(rm.user_id) ELSE @,
                    !.roblox_username = rm.username,
                    !.last_updated = now]
  IN  [w EXCEPT
         !.members = IF dry_run
                     THEN [@ EXCEPT ![k].last_updated = now]
                     ELSE [@ EXCEPT ![k] = written],
         !.logs = IF rank_changed /\ ~dry_run
                  THEN Append(@, PromotionLog(db_member.id,
                                   db_member.current_rank, system_rank))
                  ELSE @,
         !.stats = [w.stats EXCEPT
                      !.ranks_changed = IF rank_changed THEN @ + 1 ELSE @,
                      !.members_updated = IF changes THEN @ + 1 ELSE @]]

\* _update_existing_member with the PromotionLog built after the assignment
update_existing_member_logs_after(w, k, rm, system_rank, dry_run, now) ==
  LET db_member == w.members[k]
      rank_changed == db_member.current_rank # system_rank
      id_missing == ~Truthy(db_member.roblox_id)
      name_changed == db_member.roblox_username # rm.username
      changes == rank_changed \/ id_missing \/ name_changed
      written == [db_member EXCEPT
                    !.current_rank = system_rank,
                    !.roblox_id = IF id_missing THEN Str(rm.user_id) ELSE @,
                    !.roblox_username = rm.username,
                    !.last_updated = now]
  IN  [w EXCEPT
         !.members = IF dry_run THEN @ ELSE [@ EXCEPT ![k] = written],
         !.logs = IF rank_changed /\ ~dry_run
                  THEN Append(@, PromotionLog(db_member.id,
                                   system_rank, system_rank))
                  ELSE @,
         !.stats = [w.stats EXCEPT
                      !.ranks_changed = IF rank_changed THEN @ + 1 ELSE @,
                      !.members_updated = IF changes THEN @ + 1 ELSE @]]

\* _update_existing_member assigning roblox_id whether or not it is missing
update_existing_member_assigns_id(w, k, rm, system_rank, dry_run, now) ==
  LET db_member == w.members[k]
      rank_changed == db_member.current_rank # system_rank
      id_missing == ~Truthy(db_member.roblox_id)
      name_changed == db_member.roblox_username # rm.username
      changes == rank_changed \/ id_missing \/ name_changed
      written == [db_member EXCEPT
                    !.current_rank = system_rank,
                    !.roblox_id = Str(rm.user_id),
                    !.roblox_username = rm.username,
                    !.last_updated = now]
  IN  [w EXCEPT
         !.members = IF dry_run THEN @ ELSE [@ EXCEPT ![k] = written],
         !.logs = IF rank_changed /\ ~dry_run
                  THEN Append(@, PromotionLog(db_member.id,
                                   db_member.current_rank, system_rank))
                  ELSE @,
         !.stats = [w.stats EXCEPT
                      !.ranks_changed = IF rank_changed THEN @ + 1 ELSE @,
                      !.members_updated = IF changes THEN @ + 1 ELSE @]]

\* _update_existing_member, lines 173-223
update_existing_member(w, k, rm, system_rank, dry_run, now) ==
  LET db_member == w.members[k]
      rank_changed == db_member.current_rank # system_rank
      id_missing == ~Truthy(db_member.roblox_id)
      name_changed == db_member.roblox_username # rm.username
      changes == rank_changed \/ id_missing \/ name_changed
      written == [db_member EXCEPT
                    !.current_rank = system_rank,
                    !.roblox_id = IF id_missing THEN Str(rm.user_id) ELSE @,
                    !.roblox_username = rm.username,
                    !.last_updated = now]
  IN  [w EXCEPT
         !.members = IF dry_run THEN @ ELSE [@ EXCEPT ![k] = written],
         !.logs = IF rank_changed /\ ~dry_run
                  THEN Append(@, PromotionLog(db_member.id,
                                   db_member.current_rank, system_rank))
                  ELSE @,
         !.stats = [w.stats EXCEPT
                      !.ranks_changed = IF rank_changed THEN @ + 1 ELSE @,
                      !.members_updated = IF changes THEN @ + 1 ELSE @]]

\* _process_roblox_member, lines 129-144
process_roblox_member(w, db_rows, rm, dry_run, now) ==
  LET username_lower == Lower(rm.username)
      system_rank == map_roblox_rank_to_system(rm.role_name)
      k == db_by_roblox_username(db_rows, username_lower)
  IN  IF ~is_eligible_rank(system_rank) THEN w
      ELSE IF k # 0
      THEN update_existing_member(w, k, rm, system_rank, dry_run, now)
      ELSE add_new_member(w, rm, system_rank, dry_run, now)

\* sync_all_members, lines 98-108: one iteration of the loop; raises = the
\* body raised at line 100, caught by the handler of lines 106-108
SyncAllStep(w, db_rows, rm, dry_run, now, raises) ==
  IF raises
  THEN [w EXCEPT !.stats = [w.stats EXCEPT !.errors = @ + 1]]
  ELSE IF is_eligible_rank(map_roblox_rank_to_system(rm.role_name))
  THEN process_roblox_member([w EXCEPT !.eligible_count = @ + 1],
                             db_rows, rm, dry_run, now)
  ELSE [w EXCEPT !.stats = [w.stats EXCEPT !.members_skipped = @ + 1]]

\* the loop over roster[i..]; raiseAt is the position whose body raises (0: none)
RECURSIVE SyncAllLoop(_, _, _, _, _, _, _)
SyncAllLoop(w, db_rows, roster, i, dry_run, now, raiseAt) ==
  IF i > Len(roster) THEN w
  ELSE SyncAllLoop(SyncAllStep(w, db_rows, roster[i], dry_run, now,
                               i = raiseAt),
                   db_rows, roster, i + 1, dry_run, now, raiseAt)

\* sync_all_members, lines 70-116, for a non-empty fetched roster: the
\* working state before the commit
SyncAllPass(rows, logs, st, roster, dry_run, now, raiseAt) ==
  LET active == {i \in DOMAIN rows : rows[i].is_active}
      w0 == [members |-> rows, logs |-> logs,
             stats |-> [st EXCEPT
                          !.total_roblox_members = Len(roster),
                          !.total_db_members = Cardinality(active)],
             eligible_count |-> 0]
      w == SyncAllLoop(w0, rows, roster, 1, dry_run, now, raiseAt)
  IN  [w EXCEPT !.stats = [w.stats EXCEPT
                             !.eligible_roblox_members = w.eligible_count]]

NoCall == [dry_run |-> FALSE, outcome |-> "none", roster |-> <<>>,
           raised_at |-> 0,
           stats_before |-> InitialStats,
           members_before |-> <<>>, logs_before |-> <<>>,
           session_members |-> <<>>, session_logs |-> <<>>,
           committed |-> FALSE]

\* the last sync_all_members call
LastCall == IF calls = <<>> THEN NoCall ELSE calls[Len(calls)]

\* lines 66-68: test_connection() failed
SyncAllNoConnection(st, call) ==
  /\ stats' = [st EXCEPT !.errors = @ + 1]
  /\ calls' = Append(calls, call)
  /\ UNCHANGED <<db_members, db_logs>>

\* lines 72-78: nothing was fetched
SyncAllNoMembers(st, call) ==
  /\ stats' = [st EXCEPT !.total_roblox_members = 0, !.errors = @ + 1]
  /\ calls' = Append(calls, call)
  /\ UNCHANGED <<db_members, db_logs>>

\* lines 80-123: the pass over a non-empty roster and the end of the call
SyncAllRoster(st, call, roster, dry_run, raiseAt) ==
  LET w == SyncAllPass(db_members, db_logs, st, roster, dry_run, clock + 1,
                       raiseAt)
      done == [call EXCEPT !.roster = roster,
                           !.raised_at = raiseAt,
                           !.session_members = w.members,
                           !.session_logs = w.logs]
  IN  /\ stats' = w.stats
      /\ IF dry_run
         THEN \* line 118: no commit; the session is dropped with the context
              /\ calls' = Append(calls, done)
              /\ UNCHANGED <<db_members, db_logs>>
         ELSE \/ \* line 119: commit
                 /\ UniqueHandles(w.members)
                 /\ calls' = Append(calls, [done EXCEPT !.committed = TRUE])
                 /\ db_members' = w.members
                 /\ db_logs' = w.logs
              \/ \* line 119 raises (IntegrityError or a storage fault):
                 \* the exception leaves sync_all_members
                 /\ calls' = Append(calls, [done EXCEPT !.outcome = "raised"])
                 /\ UNCHANGED <<db_members, db_logs>>

\* one call of sync_all_members(dry_run) on the MemberSyncer whose stats
\* are st; the whole call is one step
sync_all_members(st, dry_run) ==
  /\ clock' = clock + 1
  /\ LET call == [NoCall EXCEPT !.dry_run = dry_run, !.outcome = "returned",
                                !.stats_before = st,
                                !.members_before = db_members,
                                !.logs_before = db_logs,
                                !.session_members = db_members,
                                !.session_logs = db_logs]
     IN  \/ SyncAllNoConnection(st, call)
         \/ SyncAllNoMembers(st, call)
         \/ \E k \in 1..Len(remote) : \E raiseAt \in 0..k :
              SyncAllRoster(st, call, get_group_members(k), dry_run, raiseAt)
  /\ UNCHANGED <<remote, rank_mappings, syncing_from_roblox>>
  /\ UNCHANGED <<pull_vars, push_vars, api_vars>>

\* AutoSyncManager.run_sync, lines 29-56: the manager's own MemberSyncer
run_sync ==
  /\ sync_all_members(stats, FALSE)
  /\ sync_count' = IF calls'[Len(calls')].outcome = "returned"
                   THEN sync_count + 1 ELSE sync_count

\* main(), lines 283-306: a new MemberSyncer, then one call
main(dry_run) ==
  /\ sync_all_members(InitialStats, dry_run)
  /\ UNCHANGED sync_count


(***************************************************************************)
(* Push to the remote provider (utils/roblox_sync.py lines 48-186), called *)
(* by the CRUD handlers on the committed row m of table members.  Each     *)
(* call is one step.  last_push records the call: requests is the number   *)
(* of RobloxAPI calls it issued.                                           *)
(***************************************************************************)
\* get_role_id_for_rank, lines 48-66; 0 stands for None
get_role_id_for_rank(system_rank) ==
  LET rows == {i \in DOMAIN rank_mappings :
                 /\ rank_mappings[i].system_rank = system_rank
                 /\ rank_mappings[i].is_active}
  IN  IF rows = {} THEN 0 ELSE rank_mappings[FirstIndex(rows)].roblox_role_id

\* a push call and the dict it returned; requests counts its RobloxAPI calls
Push(op, m, skipped, success, requests, message) ==
  [op |-> op, member_id |-> m, skipped |-> skipped, success |-> success,
   requests |-> requests, message |-> message]

\* the test with the flag negated
ShouldSkipInverted(skip_if_syncing) == skip_if_syncing /\ ~syncing_from_roblox

\* lines 73, 123, 167: the test "skip_if_syncing and _syncing_from_roblox"
ShouldSkip(skip_if_syncing) == skip_if_syncing /\ syncing_from_roblox

\* lines 73-75, 123-124, 167-168: the short-circuit while a pull is running
PushSkipped(op, m, skip_if_syncing) ==
  /\ ShouldSkip(skip_if_syncing)
  /\ last_push' = Push(op, m, TRUE, TRUE, 0, "Skipped - syncing from Roblox")
  /\ UNCHANGED db_members

\* sync_member_to_roblox, lines 68-116
sync_member_to_roblox(m, skip_if_syncing) ==
  /\ m \in DOMAIN db_members
  /\ push_count' = push_count + 1
  /\ \/ PushSkipped("sync_member_to_roblox", m, skip_if_syncing)
     \/ /\ ~ShouldSkip(skip_if_syncing)
        /\ UNCHANGED db_members
        /\ \E configured \in BOOLEAN, accepted \in BOOLEAN :
             LET member == db_members[m]
                 role_id == get_role_id_for_rank(member.current_rank)
                 op == "sync_member_to_roblox"
             IN  last_push' =
                   IF ~configured
                   THEN Push(op, m, FALSE, FALSE, 0, "Roblox API not configured")
                   ELSE IF ~Truthy(member.roblox_id)
                   THEN Push(op, m, FALSE, FALSE, 0, "has no Roblox ID")
                   ELSE IF role_id = 0
                   THEN Push(op, m, FALSE, FALSE, 0, "No role mapping found")
                   ELSE IF accepted
                   THEN Push(op, m, FALSE, TRUE, 1, "Updated in Roblox")
                   ELSE Push(op, m, FALSE, FALSE, 1,
                             "Failed to update role in Roblox")
  /\ UNCHANGED <<remote, rank_mappings, db_logs, syncing_from_roblox, clock>>
  /\ UNCHANGED <<pull_vars, syncer_vars, api_vars>>

\* add_member_to_roblox, lines 118-160; user_id is what
\* get_user_id_by_username returned, 0 for None
add_member_to_roblox(m, skip_if_syncing) ==
  /\ m \in DOMAIN db_members
  /\ push_count' = push_count + 1
  /\ \/ PushSkipped("add_member_to_roblox", m, skip_if_syncing)
     \/ /\ ~ShouldSkip(skip_if_syncing)
        /\ \E configured \in BOOLEAN, accepted \in BOOLEAN,
              user_id \in 0..MaxRoster :
             LET member == db_members[m]
                 role_id == get_role_id_for_rank(member.current_rank)
                 op == "add_member_to_roblox"
             IN  IF ~configured
                 THEN /\ last_push' = Push(op, m, FALSE, FALSE, 0,
                                           "Roblox API not configured")
                      /\ UNCHANGED db_members
                 ELSE IF ~Truthy(member.roblox_username)
                 THEN /\ last_push' = Push(op, m, FALSE, FALSE, 0,
                                           "has no Roblox username")
                      /\ UNCHANGED db_members
                 ELSE IF user_id = 0
                 THEN /\ last_push' = Push(op, m, FALSE, FALSE, 1,
                                           "Could not find Roblox user")
                      /\ UNCHANGED db_members
                 ELSE /\ db_members' =
                           IF Truthy(member.roblox_id) THEN db_members
                           ELSE [db_members EXCEPT
                                   ![m].roblox_id = Str(user_id)]
                      /\ last_push' =
                           IF role_id = 0
                           THEN Push(op, m, FALSE, FALSE, 1,
                                     "No role mapping found")
                           ELSE IF accepted
                           THEN Push(op, m, FALSE, TRUE, 2,
                                     "Added to Roblox group")
                           ELSE Push(op, m, FALSE, FALSE, 2,
                                     "Failed to add member to Roblox group")
  /\ UNCHANGED <<remote, rank_mappings, db_logs, syncing_from_roblox, clock>>
  /\ UNCHANGED <<pull_vars, syncer_vars, api_vars>>

\* remove_member_from_roblox, lines 162-186
remove_member_from_roblox(m, skip_if_syncing) ==
  /\ m \in DOMAIN db_members
  /\ push_count' = push_count + 1
  /\ \/ PushSkipped("remove_member_from_roblox", m, skip_if_syncing)
     \/ /\ ~ShouldSkip(skip_if_syncing)
        /\ UNCHANGED db_members
        /\ \E configured \in BOOLEAN, accepted \in BOOLEAN :
             LET member == db_members[m]
                 op == "remove_member_from_roblox"
             IN  last_push' =
                   IF ~configured
                   THEN Push(op, m, FALSE, FALSE, 0, "Roblox API not configured")
                   ELSE IF ~Truthy(member.roblox_id)
                   THEN Push(op, m, FALSE, FALSE, 0, "has no Roblox ID")
                   ELSE IF accepted
                   THEN Push(op, m, FALSE, TRUE, 1, "Removed from Roblox group")
                   ELSE Push(op, m, FALSE, FALSE, 1,
                             "Failed to remove member from Roblox group")
  /\ UNCHANGED <<remote, rank_mappings, db_logs, syncing_from_roblox, clock>>
  /\ UNCHANGED <<pull_vars, syncer_vars, api_vars>>

(***************************************************************************)
(* RobloxAPI.update_member_role (api/roblox_api.py lines 300-403), the     *)
(* write the push functions issue.  The whole call is one step; the        *)
(* provider's answers are drawn from the status codes below.               *)
(***************************************************************************)
\* self.min_delay (0.1 s), the unit of time of the rate limiter
MinDelay == 1

\* one second, in units of min_delay (0.1 s)
Second == 10 * MinDelay

\* RobloxAPI.__init__, lines 26-48: nothing sent yet and last_request = 0.
\* since_request: the time since self.last_request; since_call: the time
\* since the last outbound call completed; both counted up to MinDelay.
\* gaps: the times found between two consecutive outbound calls.
NoHttp ==
  [since_request |-> MinDelay, since_call |-> MinDelay, called |-> FALSE,
   gaps |-> {}]

\* time.sleep(d), or d units passing otherwise
Elapsed(h, d) ==
  [h EXCEPT !.since_request = IF @ + d < MinDelay THEN @ + d ELSE MinDelay,
            !.since_call = IF @ + d < MinDelay THEN @ + d ELSE MinDelay]

\* one call of self.session sent now; stamped: the call is followed by
\* self.last_request = time.time()
SessionCall(h, stamped) ==
  [h EXCEPT !.gaps = IF h.called THEN @ \cup {h.since_call} ELSE @,
            !.called = TRUE,
            !.since_call = 0,
            !.since_request = IF stamped THEN 0 ELSE @]

\* _make_request, lines 115-138: sleep until min_delay has passed since
\* last_request, send, and set last_request when a response came back
\* (answered); then the sleep that follows the response (pause)
RateLimitedCall(h, answered, pause) ==
  LET time_since_last == h.since_request
      waited == IF time_since_last < MinDelay
                THEN Elapsed(h, MinDelay - time_since_last) ELSE h
  IN  Elapsed(SessionCall(waited, answered), pause)

\* the calls of update_member_role, lines 308-359: _get_csrf_token (one POST,
\* and a PATCH when that gave no token), the PATCH, its retry, and after a
\* 200 or 204 the sleep of 0.5 s and get_user_role_in_group; all of them
\* through self.session directly
RoleUpdateCalls(h, token_first, retried, ok) ==
  LET logout == SessionCall(h, FALSE)
      csrf == IF token_first THEN logout ELSE SessionCall(logout, FALSE)
      patch == SessionCall(csrf, FALSE)
      retry == IF retried THEN SessionCall(patch, FALSE) ELSE patch
  IN  IF ok THEN SessionCall(Elapsed(retry, Second \div 2), FALSE) ELSE retry

\* the roles of the group at the provider: role id -> role name
ProviderRoles ==
  [id \in {10, 20, 30} |->
     CASE id = 10 -> "Recruit"
       [] id = 20 -> "Guest"
       [] OTHER -> "Novice"]

\* the id of the role called name
RoleIdOf(name) == CHOOSE id \in DOMAIN ProviderRoles : ProviderRoles[id] = name

\* response.status_code of the PATCH; 0 stands for a RequestException
Statuses == {0, 200, 204, 400, 401, 403, 404, 500}

NoRoleUpdate ==
  [seq |-> 0, user_id |-> 0, role_id |-> 0, patches |-> 0, status |-> 0,
   read_back |-> 0, success |-> FALSE, message |-> "none"]

\* lines 355-403: the returned pair for the last PATCH status and the role id
\* read back by get_user_role_in_group (0 when the read returned None)
RoleUpdateResult(role_id, status, read_back) ==
  CASE status \in {200, 204} ->
         IF read_back # 0
         THEN IF read_back = role_id
              THEN [success |-> TRUE, message |-> "Success"]
              ELSE [success |-> FALSE, message |-> "role didn't change"]
         ELSE [success |-> TRUE, message |-> "Success (could not verify)"]
    [] status = 401 -> [success |-> FALSE, message |-> "Authentication failed"]
    [] status = 403 -> [success |-> FALSE, message |-> "Permission denied"]
    [] status = 404 -> [success |-> FALSE, message |-> "not found in group"]
    [] status = 400 -> [success |-> FALSE, message |-> "Bad request"]
    [] status = 0 -> [success |-> FALSE, message |-> "Request error"]
    [] OTHER -> [success |-> FALSE, message |-> "API error"]

\* update_member_role(user_id, role_id) for the user at position u of the
\* provider's roster.  first, second: the status of the PATCH and of its
\* retry; new_token: the 403 carried another CSRF token; applied: the
\* provider changed the role; readable: the follow-up GET answered 200.
update_member_role(u, role_id) ==
  /\ u \in DOMAIN remote
  /\ \E cookie \in BOOLEAN, first \in Statuses, second \in Statuses,
        new_token \in BOOLEAN, applied \in BOOLEAN, readable \in BOOLEAN,
        token_first \in BOOLEAN :
       LET retried == first = 403 /\ new_token
           status == IF retried THEN second ELSE first
           written == status \in {200, 204} /\ applied
           after == IF written
                    THEN [remote EXCEPT ![u].role_name = ProviderRoles[role_id]]
                    ELSE remote
           read_back == IF status \in {200, 204} /\ readable
                        THEN RoleIdOf(after[u].role_name) ELSE 0
           r == RoleUpdateResult(role_id, status, read_back)
           call == [seq |-> role_update.seq + 1, user_id |-> remote[u].user_id,
                    role_id |-> role_id, patches |-> 0, status |-> 0,
                    read_back |-> 0, success |-> FALSE,
                    message |-> "No authentication cookie provided"]
       IN  IF ~cookie
           THEN \* lines 304-305
                /\ ~retried /\ first = 0 /\ ~applied /\ ~readable
                /\ token_first
                /\ role_update' = call
                /\ UNCHANGED <<remote, http>>
           ELSE /\ retried \/ second = 0
                /\ status \in {200, 204} \/ (~applied /\ ~readable)
                /\ role_update' =
                     [call EXCEPT !.patches = IF retried THEN 2 ELSE 1,
                                  !.status = status,
                                  !.read_back = read_back,
                                  !.success = r.success,
                                  !.message = r.message]
                /\ remote' = after
                /\ http' = RoleUpdateCalls(http, token_first, retried,
                                           status \in {200, 204})
  /\ UNCHANGED <<rank_mappings, db_members, db_logs, syncing_from_roblox,
                 clock, fetch>>
  /\ UNCHANGED <<pull_vars, syncer_vars, push_vars>>

(***************************************************************************)
(* RobloxAPI.get_group_members and _make_request (api/roblox_api.py lines  *)
(* 111-188, 201-275), one step per HTTP request.  fetch holds the locals   *)
(* of the two functions:                                                   *)
(*   pc           "idle", "request" (about to send), "done" (returned)     *)
(*   cursor       the cursor of the page to request; 0 stands for ""       *)
(*   page_count   pages requested so far                                   *)
(*   members      the list members                                         *)
(*   retry_count  the parameter retry_count of the running _make_request   *)
(*   wait         seconds slept by time.sleep since the last request       *)
(*   log          every request sent: its cursor, the status of the        *)
(*                response and the seconds slept before it was sent        *)
(***************************************************************************)
\* the retry bound written in _make_request: "if retry_count < 3"
MaxRetryCount == 3

\* the parameter limit of get_group_members
FetchLimit == 10000

NoFetch ==
  [pc |-> "idle", limit |-> FetchLimit, endless |-> FALSE, cursor |-> 0,
   page_count |-> 0, members |-> <<>>, retry_count |-> 0, wait |-> 0,
   log |-> <<>>]

\* the provider's page for a cursor: its members ('data') and the cursor of
\* the next page ('nextPageCursor', 0 for null); the cursor of page p is p.
\* An endless provider answers the last page with the cursor of the first.
ProviderPage(cursor) ==
  LET page == IF cursor = 0 THEN 1 ELSE cursor
      from == (page - 1) * PageSize + 1
      to == IF page * PageSize < Len(remote) THEN page * PageSize
            ELSE Len(remote)
  IN  [data |-> SubSeq(remote, from, to),
       nextPageCursor |-> IF page * PageSize < Len(remote) THEN page + 1
                          ELSE IF fetch.endless THEN 1 ELSE 0]

\* the request sent now, as the log records it
Sent(status) ==
  [cursor |-> fetch.cursor, status |-> status, slept |-> fetch.wait]

\* lines 201-224: the locals, then the first pass through the loop head;
\* endless: the provider this call talks to never ends its listing
GetGroupMembers_Begin(limit, endless) ==
  /\ fetch.pc \in {"idle", "done"}
  /\ fetch' = [NoFetch EXCEPT !.pc = "request", !.page_count = 1,
                              !.limit = limit, !.endless = endless]
  /\ UNCHANGED <<remote, rank_mappings, db_members, db_logs,
                 syncing_from_roblox, clock, role_update, http>>
  /\ UNCHANGED <<pull_vars, syncer_vars, push_vars>>

\* the response is 200 and the loop goes on whatever the number of members
MakeRequest_OkNoLimit ==
  /\ fetch.pc = "request"
  /\ LET page == ProviderPage(fetch.cursor)
         members == fetch.members \o page.data
         more == /\ page.data # <<>>
                 /\ page.nextPageCursor # 0
     IN  /\ fetch' = [fetch EXCEPT
                        !.log = Append(@, Sent(200)),
                        !.members = members,
                        !.cursor = IF page.data = <<>> THEN @
                                   ELSE page.nextPageCursor,
                        !.page_count = IF more THEN @ + 1 ELSE @,
                        !.retry_count = 0,
                        !.wait = 0,
                        !.pc = IF more THEN "request" ELSE "done"]
         /\ http' = RateLimitedCall(http, TRUE,
                                    IF more THEN Second \div 2 ELSE 0)
  /\ UNCHANGED <<remote, rank_mappings, db_members, db_logs,
                 syncing_from_roblox, clock, role_update>>
  /\ UNCHANGED <<pull_vars, syncer_vars, push_vars>>

\* lines 140-143 and 226-272: the response is 200; the page is appended
\* and the loop ends or goes on to the next cursor
MakeRequest_Ok ==
  /\ fetch.pc = "request"
  /\ LET page == ProviderPage(fetch.cursor)
         members == fetch.members \o page.data
         more == /\ page.data # <<>>
                 /\ page.nextPageCursor # 0
                 /\ Len(members) < fetch.limit
     IN  /\ fetch' = [fetch EXCEPT
                        !.log = Append(@, Sent(200)),
                        !.members = members,
                        !.cursor = IF page.data = <<>> THEN @
                                   ELSE page.nextPageCursor,
                        !.page_count = IF more THEN @ + 1 ELSE @,
                        !.retry_count = 0,
                        !.wait = 0,
                        !.pc = IF more THEN "request" ELSE "done"]
         /\ http' = RateLimitedCall(http, TRUE,
                                    IF more THEN Second \div 2 ELSE 0)
  /\ UNCHANGED <<remote, rank_mappings, db_members, db_logs,
                 syncing_from_roblox, clock, role_update>>
  /\ UNCHANGED <<pull_vars, syncer_vars, push_vars>>

\* the retry sent for the cursor of the next page
MakeRequest_RateLimitedNextCursor ==
  /\ fetch.pc = "request"
  /\ fetch' =
       IF fetch.retry_count < MaxRetryCount
       THEN [fetch EXCEPT !.log = Append(@, Sent(429)),
                          !.cursor = ProviderPage(@).nextPageCursor,
                          !.wait = 60,
                          !.retry_count = @ + 1]
       ELSE [fetch EXCEPT !.log = Append(@, Sent(429)),
                          !.wait = 0,
                          !.pc = "done"]
  /\ http' = RateLimitedCall(http, TRUE,
                             IF fetch.retry_count < MaxRetryCount
                             THEN 60 * Second ELSE 0)
  /\ UNCHANGED <<remote, rank_mappings, db_members, db_logs,
                 syncing_from_roblox, clock, role_update>>
  /\ UNCHANGED <<pull_vars, syncer_vars, push_vars>>

\* lines 144-151: the response is 429; sleep 60 s and call _make_request
\* again with the same arguments and retry_count + 1, or return None, on
\* which get_group_members leaves its loop (lines 226-228)
MakeRequest_RateLimited ==
  /\ fetch.pc = "request"
  /\ fetch' =
       IF fetch.retry_count < MaxRetryCount
       THEN [fetch EXCEPT !.log = Append(@, Sent(429)),
                          !.wait = 60,
                          !.retry_count = @ + 1]
       ELSE [fetch EXCEPT !.log = Append(@, Sent(429)),
                          !.wait = 0,
                          !.pc = "done"]
  /\ http' = RateLimitedCall(http, TRUE,
                             IF fetch.retry_count < MaxRetryCount
                             THEN 60 * Second ELSE 0)
  /\ UNCHANGED <<remote, rank_mappings, db_members, db_logs,
                 syncing_from_roblox, clock, role_update>>
  /\ UNCHANGED <<pull_vars, syncer_vars, push_vars>>

\* lines 165-185: ConnectionError, ChunkedEncodingError or Timeout (status
\* 0); sleep 2 * (retry_count + 1) s and retry, or return None
MakeRequest_ConnectionError ==
  /\ fetch.pc = "request"
  /\ fetch' =
       IF fetch.retry_count < MaxRetryCount
       THEN [fetch EXCEPT !.log = Append(@, Sent(0)),
                          !.wait = 2 * (fetch.retry_count + 1),
                          !.retry_count = @ + 1]
       ELSE [fetch EXCEPT !.log = Append(@, Sent(0)),
                          !.wait = 0,
                          !.pc = "done"]
  /\ http' = RateLimitedCall(http, FALSE,
                             IF fetch.retry_count < MaxRetryCount
                             THEN 2 * (fetch.retry_count + 1) * Second ELSE 0)
  /\ UNCHANGED <<remote, rank_mappings, db_members, db_logs,
                 syncing_from_roblox, clock, role_update>>
  /\ UNCHANGED <<pull_vars, syncer_vars, push_vars>>

\* lines 152-163 and 186-188: 401, 403, another status or another
\* RequestException; _make_request returns None and the loop ends
MakeRequest_Failed ==
  /\ fetch.pc = "request"
  /\ \E status \in {401, 403, 500} :
       fetch' = [fetch EXCEPT !.log = Append(@, Sent(status)),
                              !.wait = 0,
                              !.pc = "done"]
  /\ http' = RateLimitedCall(http, TRUE, 0)
  /\ UNCHANGED <<remote, rank_mappings, db_members, db_logs,
                 syncing_from_roblox, clock, role_update>>
  /\ UNCHANGED <<pull_vars, syncer_vars, push_vars>>

(***************************************************************************)
(* Initial states.                                                         *)
(***************************************************************************)
\* the rosters of at most n members; the provider's user ids are distinct
\* and numbered here in listing order
RemoteRosters(n) ==
  UNION {{[i \in 1..len |-> RobloxMember(i, f[i][1], f[i][2])] :
            f \in [1..len -> Usernames \X RoleNames]} : len \in 0..n}

\* members.discord_username of the i-th row (the column is unique)
Handle(i) ==
  CASE i = 1 -> "ana"
    [] i = 2 -> "bo"
    [] OTHER -> "cy"

\* the member tables of at most n rows before the first pass
LocalTables(n) ==
  UNION {{[i \in 1..len |->
             Member(i, Handle(i), f[i][1], f[i][2], "Aspirant", f[i][3], 0)] :
            f \in [1..len -> {None, "ana", "bo"} \X {None, "1", "2"}
                               \X BOOLEAN]} : len \in 0..n}

\* the rank_mappings tables of the model
MappingTables ==
  {<<>>, <<RankMapping("Aspirant", 10, "Recruit", TRUE),
           RankMapping("Novice", 20, "Guest", TRUE)>>}

InitThreads ==
  /\ syncing_from_roblox = FALSE
  /\ clock = 0
  /\ pc = [t \in Threads |-> "idle"]
  /\ roblox_members = [t \in Threads |-> <<>>]
  /\ roblox_roles = [t \in Threads |-> {}]
  /\ session = [t \in Threads |-> NoSession]
  /\ pull_stats = [t \in Threads |-> NoStats]
  /\ collisions = [t \in Threads |-> {}]
  /\ before = [t \in Threads |-> NoSession]
  /\ raise_at = [t \in Threads |-> 0]
  /\ result = [t \in Threads |-> NoResult]
  /\ stats = InitialStats
  /\ sync_count = 0
  /\ calls = <<>>
  /\ push_count = 0
  /\ last_push = NoPush
  /\ role_update = NoRoleUpdate
  /\ fetch = NoFetch
  /\ http = NoHttp

Init ==
  /\ remote \in RemoteRosters(MaxRoster)
  /\ db_members \in LocalTables(MaxLocal)
  /\ db_logs = <<>>
  /\ rank_mappings \in MappingTables
  /\ InitThreads

(***************************************************************************)
(* Spec: one reconciliation pass at a time, started by the manual trigger  *)
(* (sync_from_roblox) or from the command line (sync_all_members).         *)
(***************************************************************************)
Next ==
  \/ clock < MaxPasses /\ SyncFromRoblox_Begin("manual")
  \/ SyncFromRoblox_NotConfigured("manual")
  \/ SyncFromRoblox_Fetch("manual")
  \/ SyncFromRoblox_Loop("manual")
  \/ SyncFromRoblox_Commit("manual")
  \/ SyncFromRoblox_Except("manual")
  \/ SyncFromRoblox_Finally("manual")
  \/ clock < MaxPasses /\ ~InPass("manual") /\ main(TRUE)
  \/ clock < MaxPasses /\ ~InPass("manual") /\ main(FALSE)

Spec == Init /\ [][Next]_vars

(***************************************************************************)
(* SpecPair: the passes of Spec over a member table of MaxLocal + 1 rows   *)
(* and a provider roster of at most one member.                            *)
(***************************************************************************)
InitPair ==
  /\ remote \in RemoteRosters(1)
  /\ db_members \in {m \in LocalTables(MaxLocal + 1) : Len(m) = MaxLocal + 1}
  /\ db_logs = <<>>
  /\ rank_mappings \in MappingTables
  /\ InitThreads

SpecPair == InitPair /\ [][Next]_vars

(***************************************************************************)
(* SpecAuto: the AutoSyncManager loop, run_sync on every tick.             *)
(***************************************************************************)
NextAuto == clock < MaxTicks /\ run_sync

SpecAuto == Init /\ [][NextAuto]_vars


(***************************************************************************)
(* SpecPush: the CRUD handlers push while the manual trigger runs a pass.  *)
(***************************************************************************)
InitPush ==
  /\ remote \in RemoteRosters(1)
  /\ db_members \in LocalTables(MaxLocal)
  /\ db_logs = <<>>
  /\ rank_mappings \in MappingTables
  /\ InitThreads

NextPush ==
  \/ clock < MaxPasses /\ SyncFromRoblox_Begin("manual")
  \/ SyncFromRoblox_NotConfigured("manual")
  \/ SyncFromRoblox_Fetch("manual")
  \/ SyncFromRoblox_Loop("manual")
  \/ SyncFromRoblox_Commit("manual")
  \/ SyncFromRoblox_Except("manual")
  \/ SyncFromRoblox_Finally("manual")
  \/ \E m \in DOMAIN db_members :
       /\ push_count < MaxPushes
       /\ \/ sync_member_to_roblox(m, TRUE)
          \/ add_member_to_roblox(m, TRUE)
          \/ remove_member_from_roblox(m, TRUE)

SpecPush == InitPush /\ [][NextPush]_vars

(***************************************************************************)
(* SpecRole: the write of a push, RobloxAPI.update_member_role, against a  *)
(* provider that answers with any status.                                  *)
(***************************************************************************)
NextRole ==
  \E u \in DOMAIN remote, role_id \in DOMAIN ProviderRoles :
    role_update.seq < MaxPushes /\ update_member_role(u, role_id)

SpecRole == InitPush /\ [][NextRole]_vars

(***************************************************************************)
(* SpecFetch: one get_group_members call, request by request.              *)
(***************************************************************************)
InitFetch ==
  /\ remote \in RemoteRosters(MaxRoster)
  /\ db_members = <<>>
  /\ db_logs = <<>>
  /\ rank_mappings = <<>>
  /\ InitThreads

NextFetch ==
  \/ fetch.pc = "idle" /\ GetGroupMembers_Begin(FetchLimit, FALSE)
  \/ MakeRequest_Ok
  \/ MakeRequest_RateLimited
  \/ MakeRequest_ConnectionError
  \/ MakeRequest_Failed

SpecFetch == InitFetch /\ [][NextFetch]_vars

(***************************************************************************)
(* SpecLimit: get_group_members called again and again on one RobloxAPI    *)
(* instance, with a small limit, against providers that end their listing  *)
(* and providers that never do.  FairSpecLimit: a call that has started    *)
(* keeps running, so a request that can be sent is sent.                   *)
(***************************************************************************)
\* the limits passed to get_group_members
Limits == 1..(MaxRoster + 1)

InitLimit ==
  /\ remote \in {r \in RemoteRosters(MaxRoster) :
                   \A i \in DOMAIN r : /\ r[i].username = "ana"
                                        /\ r[i].role_name = "Novice"}
  /\ db_members = <<>>
  /\ db_logs = <<>>
  /\ rank_mappings = <<>>
  /\ InitThreads

MakeRequest ==
  \/ MakeRequest_Ok
  \/ MakeRequest_RateLimited
  \/ MakeRequest_ConnectionError
  \/ MakeRequest_Failed

NextLimit ==
  \/ \E limit \in Limits, endless \in BOOLEAN :
       GetGroupMembers_Begin(limit, endless)
  \/ MakeRequest

SpecLimit == InitLimit /\ [][NextLimit]_vars

FairSpecLimit == SpecLimit /\ WF_vars(MakeRequest)

(***************************************************************************)
(* SpecConc: the scheduler job (app.py sync_job) and the manual trigger    *)
(* (routers/sync.py sync_now) each run one pass, on their own threads.     *)
(***************************************************************************)
NextConc ==
  \E t \in Threads :
    \/ pc[t] = "idle" /\ SyncFromRoblox_Begin(t)
    \/ SyncFromRoblox_NotConfigured(t)
    \/ SyncFromRoblox_Fetch(t)
    \/ SyncFromRoblox_Loop(t)
    \/ SyncFromRoblox_Commit(t)
    \/ SyncFromRoblox_Except(t)
    \/ SyncFromRoblox_Finally(t)

SpecConc == InitPush /\ [][NextConc]_vars


(***************************************************************************)
(* Properties.                                                             *)
(***************************************************************************)
\* the member appears in the roster neither by user name nor by user id
Absent(member, roster) ==
  \A j \in DOMAIN roster :
    /\ Lower(roster[j].username) # Lower(member.roblox_username)
    /\ Str(roster[j].user_id) # member.roblox_id

\* the active members of m0 that are absent from the roster are active in m1
Kept(m0, m1, roster) ==
  \A k \in DOMAIN m0 :
    m0[k].is_active /\ Absent(m0[k], roster) =>
      k \in DOMAIN m1 /\ m1[k].is_active

\* no row was added and rank, roblox_id, roblox_username are as in m0
SameIdentity(m0, m1) ==
  /\ Len(m1) = Len(m0)
  /\ \A k \in DOMAIN m0 :
       /\ m1[k].current_rank = m0[k].current_rank
       /\ m1[k].roblox_id = m0[k].roblox_id
       /\ m1[k].roblox_username = m0[k].roblox_username

\* the entries of logs after the first n that belong to member mid
NewLogsOf(logs, n, mid) ==
  SelectSeq(SubSeq(logs, n + 1, Len(logs)), LAMBDA e : e.member_id = mid)

\* C1: after a completed pass (sync_from_roblox, or sync_all_members with
\* dry_run = False) every member that was active before the pass and is
\* absent from the fetched roster still exists and is still active.
C1_NoFalseDepartures ==
  /\ pc["manual"] = "done" /\ result["manual"].success =>
       Kept(before["manual"].members, db_members, roblox_members["manual"])
  /\ LastCall.outcome = "returned" /\ ~LastCall.dry_run =>
       Kept(LastCall.members_before, db_members, LastCall.roster)

\* C2: a local member for which sync_from_roblox logged a collision (matched
\* by name, roblox_id set and different from the remote user id) has, after
\* the pass and its commit, every field as before the pass and no new
\* PromotionLog.
C2_CollisionSafety ==
  pc["manual"] = "done" =>
    \A k \in collisions["manual"] :
      k \in DOMAIN before["manual"].members =>
        /\ db_members[k] = before["manual"].members[k]
        /\ NewLogsOf(db_logs, Len(before["manual"].logs), k) = <<>>

\* C3: a roster whose members all translate to ranks outside the eligible
\* list creates no member, changes no rank, roblox_id or roblox_username and
\* writes no PromotionLog, in sync_from_roblox and in sync_all_members; in
\* sync_all_members every such member is counted in members_skipped only.
C3_EligibilityFilter ==
  /\ ( /\ pc["manual"] = "done" /\ result["manual"].success
       /\ \A j \in DOMAIN roblox_members["manual"] :
            SystemRank(rank_mappings, roblox_roles["manual"],
                       roblox_members["manual"][j].role_name)
              \notin eligible_ranks )
     => /\ SameIdentity(before["manual"].members, db_members)
        /\ db_logs = before["manual"].logs
  /\ ( /\ LastCall.outcome = "returned" /\ LastCall.roster # <<>>
       /\ LastCall.raised_at = 0
       /\ \A j \in DOMAIN LastCall.roster :
            ~is_eligible_rank(map_roblox_rank_to_system(
                                LastCall.roster[j].role_name)) )
     => /\ SameIdentity(LastCall.members_before, db_members)
        /\ db_logs = LastCall.logs_before
        /\ stats.members_skipped
             = LastCall.stats_before.members_skipped + Len(LastCall.roster)
        /\ stats.members_added = LastCall.stats_before.members_added
        /\ stats.members_updated = LastCall.stats_before.members_updated
        /\ stats.ranks_changed = LastCall.stats_before.ranks_changed
        /\ stats.errors = LastCall.stats_before.errors

\* C4: after two run_sync ticks on the same MemberSyncer that both fetched
\* the whole, unchanged roster, the statistics returned by the second run
\* have members_added = 0, members_updated = 0 and ranks_changed = 0 and the
\* second run changed no rank, roblox_id or roblox_username.
C4_SecondRunReportsNothing ==
  ( /\ Len(calls) = 2
    /\ calls[1].outcome = "returned" /\ calls[1].committed
    /\ calls[2].outcome = "returned"
    /\ calls[1].roster = remote /\ calls[2].roster = remote
    /\ calls[1].raised_at = 0 /\ calls[2].raised_at = 0 )
  => /\ stats.members_added = 0
     /\ stats.members_updated = 0
     /\ stats.ranks_changed = 0
     /\ SameIdentity(calls[2].members_before, db_members)

\* C5: the statistics a new MemberSyncer returns for dry_run are those the
\* other mode of dry_run computes for the same roster and the same tables.
C5_DryRunSameStatistics ==
  LET c == LastCall
      other == SyncAllPass(c.members_before, c.logs_before, c.stats_before,
                           c.roster, ~c.dry_run, clock, c.raised_at)
  IN  ( /\ c.outcome = "returned" /\ c.roster # <<>>
        /\ c.stats_before = InitialStats )
      => stats = other.stats

\* C6: a call sync_all_members(dry_run = True) creates no Member, writes no
\* PromotionLog, changes no field of a Member in its session and commits
\* nothing.
C6_DryRunLeavesStorage ==
  [][ (calls' # calls /\ LastCall'.dry_run) =>
        /\ db_members' = db_members
        /\ db_logs' = db_logs
        /\ LastCall'.session_members = db_members
        /\ LastCall'.session_logs = db_logs
        /\ ~LastCall'.committed ]_vars

\* a dry run over a roster with a member to create and a rank to change
C6_Witness ==
  /\ LastCall.dry_run /\ LastCall.outcome = "returned"
  /\ stats.members_added > 0 /\ stats.ranks_changed > 0

\* from = to for an empty chain; else the entries lead from rank from to
\* rank to, each entry a real change that starts where the previous ended
RankChain(from, entries, to) ==
  IF entries = <<>> THEN from = to
  ELSE /\ entries[1].from_rank = from
       /\ entries[Len(entries)].to_rank = to
       /\ \A i \in DOMAIN entries :
            /\ entries[i].from_rank # entries[i].to_rank
            /\ i < Len(entries) =>
                 entries[i].to_rank = entries[i + 1].from_rank

C8_FlagReleased ==
  /\ InPass("manual") => syncing_from_roblox
  /\ pc["manual"] \in {"idle", "done"} => ~syncing_from_roblox

\* an invocation that ended through the run-level exception handler
C8_Witness ==
  /\ pc["manual"] = "done"
  /\ result["manual"].message = "Error"
  /\ ~syncing_from_roblox

\* C9: a push call made while the flag is true returns success, issues no
\* request to the provider, changes no member and commits nothing.
C9_PushShortCircuit ==
  [][ (push_count' # push_count /\ syncing_from_roblox) =>
        /\ last_push'.success
        /\ last_push'.requests = 0
        /\ db_members' = db_members
        /\ db_logs' = db_logs ]_vars

\* add_member_to_roblox skipped for a member whose roblox_id it would set
C9_Witness ==
  /\ last_push.skipped
  /\ last_push.op = "add_member_to_roblox"
  /\ InPass("manual")
  /\ last_push.member_id \in DOMAIN db_members
  /\ ~Truthy(db_members[last_push.member_id].roblox_id)
  /\ Truthy(db_members[last_push.member_id].roblox_username)

\* C10: at most one pass is between set_syncing_flag(True) and
\* set_syncing_flag(False).
C10_OnePassAtATime ==
  \A t, u \in Threads : InPass(t) /\ InPass(u) => t = u

\* C11: at every moment at which a sync_from_roblox pass is between line 193
\* and the end of its finally clause, on either thread, the flag
\* _syncing_from_roblox is true (so a push with skip_if_syncing defers).
C11_FlagCoversEveryPass ==
  (\E t \in Threads : InPass(t)) => syncing_from_roblox

\* the columns of a member the loop of a pass writes
IdentityColumns == {"current_rank", "roblox_id", "roblox_username"}

\* the step committed everything the session of thread t holds: the rows it
\* created, the columns it changed and the PromotionLog rows it added
CommittedAll(t) ==
  LET base == before[t].members
      rows == session[t].members
      logs == session[t].logs
      created == Len(rows) - Len(base)
  IN  /\ Len(db_members') = Len(db_members) + created
      /\ \A i \in 1..created :
           LET row == rows[Len(base) + i]
               new == db_members'[Len(db_members) + i]
           IN  /\ new.discord_username = row.discord_username
               /\ \A f \in IdentityColumns : new[f] = row[f]
      /\ \A i \in DOMAIN base : \A f \in IdentityColumns :
           rows[i][f] # base[i][f] => db_members'[i][f] = rows[i][f]
      /\ db_logs' = db_logs \o SubSeq(logs, Len(before[t].logs) + 1, Len(logs))

\* C12: the step that ends a sync_from_roblox pass either commits every
\* creation, column update and PromotionLog of the pass (when it returns
\* success) or leaves the tables as they were; a sync_all_members call with
\* dry_run = False commits its whole session or, when the commit raises,
\* nothing; and no other step of a pass changes the tables.
C12_AllOrNothing ==
  [][ /\ \A t \in Threads :
           (pc[t] \in {"loop", "sweep"} /\ pc'[t] = "finally") =>
             IF result'[t].success
             THEN CommittedAll(t)
             ELSE db_members' = db_members /\ db_logs' = db_logs
      /\ (calls' # calls /\ ~LastCall'.dry_run) =>
           IF LastCall'.committed
           THEN /\ db_members' = LastCall'.session_members
                /\ db_logs' = LastCall'.session_logs
           ELSE db_members' = db_members /\ db_logs' = db_logs
      /\ (db_members' # db_members \/ db_logs' # db_logs) =>
           \/ calls' # calls
           \/ \E t \in Threads : pc[t] = "sweep" /\ pc'[t] = "finally" ]_vars

\* a committed sync_from_roblox pass that created a member and changed the
\* rank of another
C12_Witness ==
  /\ pc["manual"] = "done" /\ result["manual"].success
  /\ Len(db_members) > Len(before["manual"].members)
  /\ Len(db_logs) > Len(before["manual"].logs)

\* C13: update_member_role returns success only when the follow-up read of
\* the member's role was obtained and showed the requested role id.
C13_VerifiedRoleUpdate ==
  role_update.success =>
    /\ role_update.status \in {200, 204}
    /\ role_update.read_back # 0
    /\ role_update.read_back = role_update.role_id

\* the requests of the log that were sent for cursor c, in order
RequestsFor(c) == SelectSeq(fetch.log, LAMBDA e : e.cursor = c)

\* the cursors for which a request was sent
CursorsSent == {fetch.log[i].cursor : i \in DOMAIN fetch.log}

\* C14: for one page request that the provider answers with 429 every time,
\* _make_request sends at most 3 requests, each retry after a 60 s sleep.
C14_Bounded429 ==
  \A c \in CursorsSent :
    LET sent == RequestsFor(c)
    IN  (\A i \in DOMAIN sent : sent[i].status = 429) =>
          /\ Len(sent) <= 3
          /\ \A i \in DOMAIN sent : i > 1 => sent[i].slept = 60

\* the positions of the log whose response was 429
RateLimited == {i \in DOMAIN fetch.log : fetch.log[i].status = 429}

\* C15: a fetch in which one request was answered 429 and every other
\* request 200 returns the provider's roster, every page once and in cursor
\* order; the request after the 429 carries the cursor of the 429, it was
\* sent after one 60 s sleep, and no other request waited.
C15_RetriedPageTransparent ==
  ( /\ fetch.pc = "done"
    /\ Cardinality(RateLimited) = 1
    /\ \A i \in DOMAIN fetch.log : fetch.log[i].status \in {200, 429} )
  => /\ fetch.members = remote
     /\ \A i, j \in DOMAIN fetch.members :
          fetch.members[i].user_id = fetch.members[j].user_id => i = j
     /\ \A i \in RateLimited :
          /\ i + 1 \in DOMAIN fetch.log
          /\ fetch.log[i + 1].cursor = fetch.log[i].cursor
          /\ fetch.log[i + 1].slept = 60
          /\ \A j \in DOMAIN fetch.log : j # i + 1 => fetch.log[j].slept = 0

\* a fetch of two pages or more whose last page was answered 429 once
C15_Witness ==
  /\ fetch.pc = "done"
  /\ Len(remote) > PageSize
  /\ fetch.members = remote
  /\ Cardinality(RateLimited) = 1
  /\ \A i \in RateLimited : fetch.log[i].cursor # 0
  /\ \A i \in DOMAIN fetch.log : fetch.log[i].status \in {200, 429}

\* C16: the result of sync_from_roblox has success = True exactly when it
\* carries statistics whose errors counter is 0.
C16_SuccessIffNoErrors ==
  pc["manual"] = "done" =>
    ( result["manual"].success <=>
        /\ "stats" \in DOMAIN result["manual"]
        /\ result["manual"].stats.errors = 0 )

\* C17: every sync_from_roblox call returns a result that carries its
\* statistics, with errors > 0 when it failed, and no sync_all_members call
\* ends with an exception.
C17_AlwaysReturnsStatistics ==
  /\ pc["manual"] = "done" =>
       /\ "stats" \in DOMAIN result["manual"]
       /\ ~result["manual"].success => result["manual"].stats.errors > 0
  /\ \A i \in DOMAIN calls : calls[i].outcome = "returned"

\* the roster without its i-th member
Without(roster, i) ==
  SubSeq(roster, 1, i - 1) \o SubSeq(roster, i + 1, Len(roster))

GuestTier(roster) == {j \in DOMAIN roster : roster[j].role_name = "Guest"}

\* the positions of the roster whose role translates to an eligible rank
\* and is not the guest tier
Tracked(roster) ==
  {j \in DOMAIN roster :
     is_eligible_rank(map_roblox_rank_to_system(roster[j].role_name))}
    \ GuestTier(roster)

\* C19: sync_all_members(dry_run = False) on an empty member table, over a
\* roster of distinct user names, commits exactly one member for each remote
\* member of an eligible rank (named after the remote member, with its id
\* and its translated rank) and none for a member of the guest tier, and
\* counts members_added = the eligible, members_skipped = the others,
\* ranks_changed = 0.
C19_EmptyLocalRoster ==
  LET c == LastCall
      rows == c.session_members
  IN  ( /\ c.outcome = "returned" /\ ~c.dry_run /\ c.committed
        /\ c.members_before = <<>> /\ c.stats_before = InitialStats
        /\ c.raised_at = 0
        /\ \A i, j \in DOMAIN c.roster :
             Lower(c.roster[i].username) = Lower(c.roster[j].username)
               => i = j )
      => /\ Len(rows) = Cardinality(Tracked(c.roster))
         /\ \A j \in Tracked(c.roster) :
              \E k \in DOMAIN rows :
                /\ rows[k].discord_username = c.roster[j].username
                /\ rows[k].roblox_username = c.roster[j].username
                /\ rows[k].roblox_id = Str(c.roster[j].user_id)
                /\ rows[k].current_rank
                     = map_roblox_rank_to_system(c.roster[j].role_name)
         /\ \A j \in GuestTier(c.roster) :
              \A k \in DOMAIN rows :
                rows[k].roblox_id # Str(c.roster[j].user_id)
         /\ stats.members_added = Cardinality(Tracked(c.roster))
         /\ stats.members_skipped
              = Len(c.roster) - Cardinality(Tracked(c.roster))
         /\ stats.ranks_changed = 0

\* C20: a sync_member_to_roblox call that was not skipped, had the API
\* configured and a member with a roblox_id, but found no active
\* RankMapping for the member's current_rank, sends no request and does not
\* return success = False.
C20_MissingMappingNotAFailure ==
  [][ ( /\ push_count' # push_count
        /\ last_push'.op = "sync_member_to_roblox"
        /\ ~last_push'.skipped
        /\ last_push'.message # "Roblox API not configured"
        /\ Truthy(db_members[last_push'.member_id].roblox_id)
        /\ get_role_id_for_rank(
             db_members[last_push'.member_id].current_rank) = 0 )
      => /\ last_push'.requests = 0
         /\ last_push'.success ]_vars

\* C21: no two active members have the same non-empty roblox_id.
C21_UniqueRemoteId ==
  \A i, j \in DOMAIN db_members :
    ( /\ db_members[i].is_active /\ db_members[j].is_active
      /\ Truthy(db_members[i].roblox_id)
      /\ db_members[i].roblox_id = db_members[j].roblox_id ) => i = j

\* C22: no two members have the same discord_username, and no pass holds
\* in its session (so never tries to commit) a created member whose
\* discord_username is that of another member.
C22_UniqueHandle ==
  /\ UniqueHandles(db_members)
  /\ UniqueHandles(session["manual"].members)
  /\ \A i \in DOMAIN calls : UniqueHandles(calls[i].session_members)

\* the active RankMapping rows of mappings for the role name
OperatorRows(mappings, role_name) ==
  {i \in DOMAIN mappings : /\ mappings[i].is_active
                           /\ mappings[i].roblox_role_name = role_name}

\* C23: the rank sync_from_roblox translates a fetched member's role to is
\* the system_rank of the active RankMapping row for that role name when
\* there is one; RANK_MAPPING is used only when there is none, and a role
\* name found in neither is passed through.
C23_OperatorMappingFirst ==
  pc["manual"] = "sweep" =>
    \A j \in DOMAIN roblox_members["manual"] :
      LET role_name == roblox_members["manual"][j].role_name
          rows == OperatorRows(rank_mappings, role_name)
          system_rank == SystemRank(rank_mappings, roblox_roles["manual"],
                                    role_name)
      IN  /\ rows # {} =>
               \E i \in rows : system_rank = rank_mappings[i].system_rank
          /\ rows = {} =>
               system_rank \in {map_roblox_rank_to_system(role_name),
                                role_name}
          /\ ( rows = {} /\ role_name \notin DOMAIN RANK_MAPPING ) =>
               system_rank = role_name

\* the remote member rm has no id match in members but a member whose
\* roblox_username is rm.username up to letter case
MatchesByNameOnly(members, rm) ==
  /\ \A k \in DOMAIN members : members[k].roblox_id # Str(rm.user_id)
  /\ \E k \in DOMAIN members :
       /\ Truthy(members[k].roblox_username)
       /\ Lower(members[k].roblox_username) = Lower(rm.username)

\* no row of rows after the first n was created for the remote member rm
NotCreated(rows, n, rm) ==
  \A k \in DOMAIN rows : k > n => rows[k].roblox_id # Str(rm.user_id)

\* C25: in a completed pass, a remote member that has no id match and whose
\* username equals a local member's roblox_username up to letter case
\* causes no member to be created.
C25_CaseInsensitiveMatch ==
  /\ ( pc["manual"] = "done" /\ result["manual"].success
       /\ raise_at["manual"] = 0 ) =>
       \A j \in DOMAIN roblox_members["manual"] :
         MatchesByNameOnly(before["manual"].members,
                           roblox_members["manual"][j]) =>
           NotCreated(db_members, Len(before["manual"].members),
                      roblox_members["manual"][j])
  /\ ( LastCall.outcome = "returned" /\ ~LastCall.dry_run
       /\ LastCall.raised_at = 0 ) =>
       \A j \in DOMAIN LastCall.roster :
         ( /\ MatchesByNameOnly(LastCall.members_before, LastCall.roster[j])
           /\ \A k \in DOMAIN LastCall.members_before :
                LastCall.members_before[k].is_active ) =>
           NotCreated(LastCall.session_members,
                      Len(LastCall.members_before), LastCall.roster[j])

\* the members of base of which the session changed rank, id or user name
Changed(base, rows) ==
  {k \in DOMAIN base : \E f \in IdentityColumns : rows[k][f] # base[k][f]}

\* C28: when the loop of sync_from_roblox has ended without an error,
\* 'updated' is the number of members of which the pass changed roblox_id,
\* roblox_username or current_rank, and the other members have their
\* last_updated as before.
C28_UpdatedCountsChanges ==
  ( pc["manual"] = "sweep" /\ raise_at["manual"] = 0 ) =>
    LET base == before["manual"].members
        rows == session["manual"].members
    IN  /\ pull_stats["manual"].updated = Cardinality(Changed(base, rows))
        /\ \A k \in DOMAIN base :
             k \notin Changed(base, rows) =>
               rows[k].last_updated = base[k].last_updated

\* C30: after a sync_all_members call over a non-empty roster, when every
\* call so far has returned without a per-member error,
\* eligible_roblox_members +
\* members_skipped = total_roblox_members and members_added +
\* members_updated <= eligible_roblox_members.
C30_StatisticsPartition ==
  ( /\ LastCall.roster # <<>>
    /\ \A i \in DOMAIN calls : /\ calls[i].outcome = "returned"
                                /\ calls[i].raised_at = 0 )
  => /\ stats.eligible_roblox_members + stats.members_skipped
          = stats.total_roblox_members
     /\ stats.members_added + stats.members_updated
          <= stats.eligible_roblox_members

\* the remote member rm has the user name by which old is known
KnownAs(old, rm) ==
  Lower(rm.username) \in {Lower(old.roblox_username),
                          Lower(old.discord_username)}

\* C29: no step changes a non-empty roblox_id of a member, and a roblox_id
\* that was empty is set only to the user id of a remote member that has
\* the member's user name.
C29_SetIdNeverOverwritten ==
  [][\A k \in DOMAIN db_members :
       LET old == db_members[k]
           new == db_members'[k]
       IN  /\ Truthy(old.roblox_id) => new.roblox_id = old.roblox_id
           /\ ( ~Truthy(old.roblox_id) /\ Truthy(new.roblox_id) ) =>
                \E j \in DOMAIN remote :
                  /\ new.roblox_id = Str(remote[j].user_id)
                  /\ KnownAs(old, remote[j])]_vars

\* a committed sync_all_members call matched, by user name, a member whose
\* roblox_id is another user's, and changed its rank
C29_Witness ==
  /\ LastCall.committed
  /\ \E k \in DOMAIN LastCall.members_before :
       \E j \in DOMAIN LastCall.roster :
         LET old == LastCall.members_before[k]
             rm == LastCall.roster[j]
         IN  /\ old.is_active /\ Truthy(old.roblox_id)
             /\ old.roblox_id # Str(rm.user_id)
             /\ Lower(old.roblox_username) = Lower(rm.username)
             /\ db_members[k].current_rank # old.current_rank
             /\ db_members[k].roblox_id = old.roblox_id

\* in base exactly the member i has the remote member's id as roblox_id and
\* another member k has its user name as roblox_username
IdAndNameApart(base, rm, i, k) ==
  /\ i # k
  /\ \A n \in DOMAIN base : base[n].roblox_id = Str(rm.user_id) <=> n = i
  /\ base[k].roblox_username = rm.username

\* C24: when one member has the remote member's user id as roblox_id and a
\* different member has its user name as roblox_username, a pass writes the
\* remote member's name and rank to the first and leaves the second as it
\* was (sync_from_roblox at the end of its loop, sync_all_members at its
\* commit).
C24_IdBeforeUsername ==
  /\ ( pc["manual"] = "sweep" /\ raise_at["manual"] = 0 ) =>
       \A j \in DOMAIN roblox_members["manual"] :
         \A i, k \in DOMAIN before["manual"].members :
           IdAndNameApart(before["manual"].members,
                          roblox_members["manual"][j], i, k) =>
             /\ session["manual"].members[k] = before["manual"].members[k]
             /\ session["manual"].members[i].roblox_username
                  = roblox_members["manual"][j].username
  /\ ( LastCall.outcome = "returned" /\ ~LastCall.dry_run
       /\ LastCall.raised_at = 0 ) =>
       \A j \in DOMAIN LastCall.roster :
         \A i, k \in DOMAIN LastCall.members_before :
           ( /\ IdAndNameApart(LastCall.members_before,
                               LastCall.roster[j], i, k)
             /\ is_eligible_rank(
                  map_roblox_rank_to_system(LastCall.roster[j].role_name)) ) =>
             /\ LastCall.session_members[k] = LastCall.members_before[k]
             /\ LastCall.session_members[i].roblox_username
                  = LastCall.roster[j].username

\* C26: any two consecutive outbound calls of the RobloxAPI instance are
\* at least min_delay apart.
C26_SharedRateLimit ==
  \A gap \in http.gaps : gap >= MinDelay

\* the requests at the end of the log that were not answered with 200
RECURSIVE Unanswered(_)
Unanswered(log) ==
  IF log = <<>> \/ log[Len(log)].status = 200 THEN 0
  ELSE 1 + Unanswered(SubSeq(log, 1, Len(log) - 1))

\* the state in which get_group_members sends a request allows it: the
\* first request of a call has no cursor and no members yet; a request after
\* a page has the cursor that page gave, and the page was not empty, gave a
\* next cursor and left the members below limit; a request after a 429 or a
\* transport error repeats the cursor and is at most the third retry; no
\* request follows a failed one
MaySend(f) ==
  IF f.log = <<>> THEN f.cursor = 0 /\ f.members = <<>>
  ELSE LET last == f.log[Len(f.log)]
           page == ProviderPage(last.cursor)
       IN  CASE last.status = 200 ->
                  /\ page.data # <<>>
                  /\ page.nextPageCursor # 0
                  /\ f.cursor = page.nextPageCursor
                  /\ Len(f.members) < f.limit
             [] last.status \in {0, 429} ->
                  /\ f.cursor = last.cursor
                  /\ Unanswered(f.log) <= MaxRetryCount
             [] OTHER -> FALSE

\* C27: every request of get_group_members is one the loop may send (none
\* after an empty page, a page without next cursor, a failed request or
\* with limit members accumulated; the first of every call without cursor),
\* and a call that is sending requests returns.
C27_FetchStops ==
  /\ [][Len(fetch'.log) = Len(fetch.log) + 1 => MaySend(fetch)]_vars
  /\ (fetch.pc = "request") ~> (fetch.pc = "done")

\* a second call on the instance has returned limit members from a provider
\* that never ends its listing, after a retried request
C27_Witness ==
  /\ fetch.pc = "done"
  /\ fetch.endless
  /\ http.gaps # {}
  /\ Len(fetch.members) >= fetch.limit
  /\ fetch.limit > PageSize
  /\ \E i \in DOMAIN fetch.log : fetch.log[i].status = 429

====
